---- MODULE Spec2Model ----
(***************************************************************************)
(* A model of adress_book3.py: the validated fields (Phone, Birthday,      *)
(* Name), Record and AddressBook.                                          *)
(*                                                                         *)
(* A Python str is a sequence of characters; a character is a one-symbol   *)
(* TLA+ string ("sup2" stands for U+00B2 SUPERSCRIPT TWO, a character      *)
(* for which str.isdigit() is true and str.isdecimal() is false).          *)
(* A datetime.date is a record [y, m, d]. A value that may be None is a    *)
(* set: None is {} and a value x is {x}.                                   *)
(***************************************************************************)
EXTENDS Integers, Sequences, FiniteSets, TLC

VARIABLES
    constructed,  \* TRUE once Record.__init__ has returned a record
    name,         \* Record.name.value
    phones,       \* Record.phones: list of Phone values
    birthday,     \* Record.birthday.value: a date or None
    last,         \* the last call made on the record and how it ended
    data,         \* AddressBook.data: dict as a list of entries in insertion order
    added,        \* the records passed to add_record so far, in call order
    hits,         \* the last search_for call and the dict it returned
    gen,          \* the generator object returned by AddressBook.iterator
    today,        \* date.today()
    dtb           \* the outcome of the last days_to_birthday call

vars == <<constructed, name, phones, birthday, last, data, added, hits, gen, today, dtb>>

recordVars == <<constructed, name, phones, birthday, last>>
bookVars == <<data, added, hits>>
daysVars == <<today, dtb>>

None == {}
Some(x) == {x}
Get(opt) == CHOOSE x \in opt : TRUE

-----------------------------------------------------------------------------
(* Characters and strings *)

\* The characters in use, in ascending code point order.
CharOrder ==
    <<" ", "\"", "'", "(", ")", "-",
      "0", "1", "2", "3", "4", "5", "6", "7", "8", "9", "=",
      "A", "B", "C", "D", "E", "F", "G", "H", "I", "J", "K", "L", "M",
      "N", "O", "P", "Q", "R", "S", "T", "U", "V", "W", "X", "Y", "Z", "\\",
      "a", "b", "c", "d", "e", "f", "g", "h", "i", "j", "k", "l", "m",
      "n", "o", "p", "q", "r", "s", "t", "u", "v", "w", "x", "y", "z",
      "sup2">>

OrdTable ==
    [c \in {CharOrder[i] : i \in 1..Len(CharOrder)} |->
        CHOOSE i \in 1..Len(CharOrder) : CharOrder[i] = c]

\* ord(c), up to an order preserving renumbering
Ord(c) == OrdTable[c]

AsciiDigits == <<"0", "1", "2", "3", "4", "5", "6", "7", "8", "9">>

IsAsciiDigit(c) == \E i \in 1..10 : AsciiDigits[i] = c

DigitVal(c) == (CHOOSE i \in 1..10 : AsciiDigits[i] = c) - 1

\* str.isdecimal() on one character
IsDecimalChar(c) == IsAsciiDigit(c)

\* str.isdigit() on one character: decimal characters and the digits that
\* need special handling, such as the superscript digits
IsDigitChar(c) == IsDecimalChar(c) \/ c = "sup2"

\* str.isdigit(): every character is a digit and there is at least one
IsDigit(s) == Len(s) > 0 /\ \A i \in 1..Len(s) : IsDigitChar(s[i])

Min(a, b) == IF a < b THEN a ELSE b

\* s < t on Python strings: by code point, a proper prefix is smaller
StrLt(s, t) ==
    \E k \in 0..Min(Len(s), Len(t)) :
        /\ \A i \in 1..k : s[i] = t[i]
        /\ \/ k = Len(s) /\ k < Len(t)
           \/ k < Len(s) /\ k < Len(t) /\ Ord(s[k + 1]) < Ord(t[k + 1])

\* query in text
Contains(text, query) ==
    \E i \in 0..(Len(text) - Len(query)) :
        \A j \in 1..Len(query) : text[i + j] = query[j]

Rep(c, n) == [i \in 1..n |-> c]

RECURSIVE Join(_, _)
\* sep.join(strs)
Join(sep, strs) ==
    IF Len(strs) = 0 THEN <<>>
    ELSE IF Len(strs) = 1 THEN strs[1]
    ELSE strs[1] \o sep \o Join(sep, Tail(strs))

Range(f) == {f[i] : i \in DOMAIN f}

\* list.sort() on a list of strings (or of fields ordered by their value)
SortList(l) == SortSeq(l, StrLt)

\* list(set(...)) followed by sort(): the order the set is listed in does
\* not survive the sort
SortSet(S) ==
    [k \in 1..Cardinality(S) |->
        CHOOSE x \in S : Cardinality({y \in S : StrLt(y, x)}) = k - 1]

\* list.index(x); 0 when x is not in the list (the code raises ValueError)
Index(l, x) ==
    IF \E i \in 1..Len(l) : l[i] = x
    THEN CHOOSE i \in 1..Len(l) : l[i] = x /\ \A j \in 1..(i - 1) : l[j] # x
    ELSE 0

\* the list without its element at position i
RemoveAt(l, i) == SubSeq(l, 1, i - 1) \o SubSeq(l, i + 1, Len(l))

\* the list with x inserted so that it lands at position i
InsertAt(l, i, x) == SubSeq(l, 1, i - 1) \o <<x>> \o SubSeq(l, i, Len(l))

-----------------------------------------------------------------------------
(* Phone *)

PhoneLen == 9

\* Phone.is_phone_valid: FALSE stands for the ValueError it raises
is_phone_valid(phone_number) ==
    IsDigit(phone_number) /\ Len(phone_number) = PhoneLen

-----------------------------------------------------------------------------
(* datetime.date *)

IsLeap(y) == (y % 4 = 0) /\ ((y % 100 # 0) \/ (y % 400 = 0))

DaysInMonth(y, m) ==
    IF m = 2 THEN (IF IsLeap(y) THEN 29 ELSE 28)
    ELSE IF m \in {4, 6, 9, 11} THEN 30 ELSE 31

\* date(year, month, day) accepts exactly these (years MINYEAR to MAXYEAR);
\* otherwise it raises ValueError
ValidDate(y, m, d) ==
    /\ y \in 1..9999
    /\ m \in 1..12
    /\ d \in 1..DaysInMonth(y, m)

Date(y, m, d) == [y |-> y, m |-> m, d |-> d]

RECURSIVE DaysBeforeMonth(_, _)
DaysBeforeMonth(y, m) ==
    IF m = 1 THEN 0 ELSE DaysBeforeMonth(y, m - 1) + DaysInMonth(y, m - 1)

DaysBeforeYear(y) ==
    (y - 1) * 365 + ((y - 1) \div 4) - ((y - 1) \div 100) + ((y - 1) \div 400)

\* date.toordinal(): 1 for 0001-01-01
Ordinal(dt) == DaysBeforeYear(dt.y) + DaysBeforeMonth(dt.y, dt.m) + dt.d

\* (a - b).days
DaysBetween(a, b) == Ordinal(a) - Ordinal(b)

RECURSIVE ParseInt(_)
\* the number written by a string of ASCII digits
ParseInt(s) ==
    IF Len(s) = 0 THEN 0
    ELSE ParseInt(SubSeq(s, 1, Len(s) - 1)) * 10 + DigitVal(s[Len(s)])

RECURSIVE ZeroPad(_, _)
\* n written in decimal on width characters, zero filled
ZeroPad(n, width) ==
    IF width = 0 THEN <<>>
    ELSE ZeroPad(n \div 10, width - 1) \o <<AsciiDigits[(n % 10) + 1]>>

\* date.fromisoformat on the YYYY-MM-DD form: the date, or None for the
\* ValueError it raises.
\* (The strings it is applied to here are of that form or of no ISO form at
\* all; newer interpreters also read YYYYMMDD and week dates.)
fromisoformat(s) ==
    IF /\ Len(s) = 10
       /\ s[5] = "-"
       /\ s[8] = "-"
       /\ \A i \in {1, 2, 3, 4, 6, 7, 9, 10} : IsAsciiDigit(s[i])
       /\ ValidDate(ParseInt(SubSeq(s, 1, 4)), ParseInt(SubSeq(s, 6, 7)),
                    ParseInt(SubSeq(s, 9, 10)))
    THEN Some(Date(ParseInt(SubSeq(s, 1, 4)), ParseInt(SubSeq(s, 6, 7)),
                   ParseInt(SubSeq(s, 9, 10))))
    ELSE None

\* date.isoformat()
isoformat(dt) ==
    ZeroPad(dt.y, 4) \o <<"-">> \o ZeroPad(dt.m, 2) \o <<"-">> \o ZeroPad(dt.d, 2)

-----------------------------------------------------------------------------
(* Birthday *)

\* Birthday.value setter: the value stored for new_date. A string that does
\* not parse is reported on stdout and stored as None.
BirthdayValue(new_date) ==
    IF new_date = None THEN None
    ELSE IF fromisoformat(Get(new_date)) = None THEN None
    ELSE fromisoformat(Get(new_date))

\* Birthday.__str__
BirthdayStr(value) ==
    IF value = None THEN <<"N", "o", "n", "e">> ELSE isoformat(Get(value))

-----------------------------------------------------------------------------
(* Record *)

NoError == "no error"
ValueError == "ValueError"

\* how a call ended: err is NoError or ValueError; msg and bad are the
\* exception's message and the value it names
Ok == [err |-> NoError, msg |-> "", bad |-> <<>>]
NotValid(p) == [err |-> ValueError, msg |-> "is not valid", bad |-> p]
NotInList(p) == [err |-> ValueError, msg |-> "x not in list", bad |-> p]

\* the members of the set built from phone_numbs that Phone() rejects; the
\* list comprehension over the set raises for whichever of them it meets first
InvalidOf(phone_numbs) == {p \in Range(phone_numbs) : ~is_phone_valid(p)}

\* Record.__init__, the phone list it stores when every Phone() succeeds
InitPhones(phone_numbs) == SortSet(Range(phone_numbs))

\* Record.add_phone, the phone list it stores when every Phone() succeeds
AddPhones(old_phones, phone_numbs) ==
    SortSet(Range(old_phones) \cup Range(phone_numbs))

RECURSIVE RemoveLoop(_, _)
\* Record.remove_phone: the loop over phone_numbs, on the list l. Each turn
\* builds Phone(phone) and removes its first occurrence; the first turn that
\* raises ends the loop with the removals made so far in place.
RemoveLoop(l, phone_numbs) ==
    IF Len(phone_numbs) = 0 THEN [phones |-> l, out |-> Ok]
    ELSE LET phone == Head(phone_numbs) IN
         IF ~is_phone_valid(phone) THEN [phones |-> l, out |-> NotValid(phone)]
         ELSE IF Index(l, phone) = 0 THEN [phones |-> l, out |-> NotInList(phone)]
         ELSE RemoveLoop(RemoveAt(l, Index(l, phone)), Tail(phone_numbs))

\* Record.change_phone on the list l
ChangePhone(l, old_phone, new_phone) ==
    IF ~is_phone_valid(old_phone) THEN [phones |-> l, out |-> NotValid(old_phone)]
    ELSE IF Index(l, old_phone) = 0 THEN [phones |-> l, out |-> NotInList(old_phone)]
    ELSE LET ind == Index(l, old_phone)
             popped == RemoveAt(l, ind)
         IN IF ~is_phone_valid(new_phone)
            THEN [phones |-> popped, out |-> NotValid(new_phone)]
            ELSE [phones |-> SortList(InsertAt(popped, ind, new_phone)), out |-> Ok]

\* Record.get_phones
get_phones(l) == l

\* the record Record(contact_name, *phone_numbs, birthday=bday) returns when
\* every Phone() succeeds
Record(contact_name, phone_numbs, bday) ==
    [name |-> contact_name,
     phones |-> InitPhones(phone_numbs),
     birthday |-> BirthdayValue(bday)]

RECURSIVE Escape(_, _)
\* s with a backslash before each backslash and each quote character
Escape(s, quote) ==
    IF Len(s) = 0 THEN <<>>
    ELSE (IF Head(s) \in {"\\", quote} THEN <<"\\", Head(s)>> ELSE <<Head(s)>>)
         \o Escape(Tail(s), quote)

\* repr(s) of a str of printable ASCII: in single quotes, or in double quotes
\* when s holds a single quote and no double quote
StrRepr(s) ==
    LET quote == IF "'" \in Range(s) /\ "\"" \notin Range(s) THEN "\"" ELSE "'"
    IN <<quote>> \o Escape(s, quote) \o <<quote>>

\* str(Name(s)): Name defines no __str__ and no __format__, so this is the
\* __repr__ that @dataclass generates, Name(value='...')
NameStr(s) ==
    <<"N", "a", "m", "e", "(", "v", "a", "l", "u", "e", "=">> \o StrRepr(s) \o <<")">>

\* Record.get_search_string
get_search_string(rec) ==
    NameStr(rec.name) \o <<" ">> \o Join(<<" ">>, rec.phones) \o <<" ">>
        \o BirthdayStr(rec.birthday)

-----------------------------------------------------------------------------
(* The calls made on one record *)

MaxArgs == 2

PhoneA == <<"1", "2", "3", "1", "2", "3", "1", "2", "3">>
PhoneB == <<"2", "3", "2", "3", "2", "2", "3", "2", "3">>
PhoneC == <<"6", "6", "6", "7", "3", "6", "4", "7", "3">>
PhoneSup == Rep("sup2", PhoneLen)
PhoneLetters == <<"d", "d", "f", "d", "f", "a">>

\* the strings passed as phone numbers
PhoneArgs == {PhoneA, PhoneB, PhoneSup, PhoneLetters}

\* *phone_numbs: up to MaxArgs positional arguments
ArgLists == UNION {[1..k -> PhoneArgs] : k \in 0..MaxArgs}

Bilbo == <<"B", "i", "l", "b", "o">>

Date1988 == <<"1", "9", "8", "8", "-", "1", "2", "-", "0", "1">>
DateNoFeb29 == <<"2", "0", "2", "3", "-", "0", "2", "-", "2", "9">>
DateGarbled == <<"h", "h", "h", "d", "j", "-", "3", "-", "-", "4", "3", "-">>

\* the values passed as birthday=
BirthdayArgs == {None, Some(Date1988), Some(DateNoFeb29), Some(DateGarbled)}

NoCall == [op |-> "none", args |-> <<>>, pre |-> <<>>, out |-> Ok, bday |-> None]

Call(op, args, pre, out) ==
    [op |-> op, args |-> args, pre |-> pre, out |-> out, bday |-> None]

\* Record(contact_name, *phone_numbs, birthday=bday)
Construct(contact_name, phone_numbs, bday) ==
    /\ ~constructed
    /\ IF InvalidOf(phone_numbs) = {}
       THEN /\ constructed' = TRUE
            /\ name' = Record(contact_name, phone_numbs, bday).name
            /\ phones' = Record(contact_name, phone_numbs, bday).phones
            /\ birthday' = Record(contact_name, phone_numbs, bday).birthday
            /\ last' = [op |-> "__init__", args |-> phone_numbs, pre |-> <<>>,
                        out |-> Ok, bday |-> bday]
       ELSE /\ \E bad \in InvalidOf(phone_numbs) :
                last' = [op |-> "__init__", args |-> phone_numbs, pre |-> <<>>,
                         out |-> NotValid(bad), bday |-> bday]
            /\ UNCHANGED <<constructed, name, phones, birthday>>
    /\ UNCHANGED <<bookVars, gen, daysVars>>

\* record.add_phone(*phone_numbs)
add_phone(phone_numbs) ==
    /\ constructed
    /\ IF InvalidOf(phone_numbs) = {}
       THEN /\ phones' = AddPhones(phones, phone_numbs)
            /\ last' = Call("add_phone", phone_numbs, phones, Ok)
       ELSE /\ \E bad \in InvalidOf(phone_numbs) :
                last' = Call("add_phone", phone_numbs, phones, NotValid(bad))
            /\ UNCHANGED phones
    /\ UNCHANGED <<constructed, name, birthday, bookVars, gen, daysVars>>

\* record.remove_phone(*phone_numbs)
remove_phone(phone_numbs) ==
    /\ constructed
    /\ phones' = RemoveLoop(phones, phone_numbs).phones
    /\ last' = Call("remove_phone", phone_numbs, phones,
                    RemoveLoop(phones, phone_numbs).out)
    /\ UNCHANGED <<constructed, name, birthday, bookVars, gen, daysVars>>

\* record.change_phone(old_phone, new_phone)
change_phone(old_phone, new_phone) ==
    /\ constructed
    /\ phones' = ChangePhone(phones, old_phone, new_phone).phones
    /\ last' = Call("change_phone", <<old_phone, new_phone>>, phones,
                    ChangePhone(phones, old_phone, new_phone).out)
    /\ UNCHANGED <<constructed, name, birthday, bookVars, gen, daysVars>>

NoGen == [state |-> "none", N |-> 0, rec_keys |-> <<>>, count |-> 0, pages |-> <<>>]
NoHits == [called |-> FALSE, query |-> <<>>, book |-> <<>>, result |-> <<>>]
NoDays == [kind |-> "not called", days |-> 0]
Epoch == Date(1, 1, 1)

InitRecord ==
    /\ constructed = FALSE
    /\ name = <<>>
    /\ phones = <<>>
    /\ birthday = None
    /\ last = NoCall
    /\ data = <<>>
    /\ added = <<>>
    /\ hits = NoHits
    /\ gen = NoGen
    /\ today = Epoch
    /\ dtb = NoDays

NextRecord ==
    \/ \E phone_numbs \in ArgLists, bday \in BirthdayArgs :
          Construct(Bilbo, phone_numbs, bday)
    \/ \E phone_numbs \in ArgLists : add_phone(phone_numbs)
    \/ \E phone_numbs \in ArgLists : remove_phone(phone_numbs)
    \/ \E old_phone \in PhoneArgs, new_phone \in PhoneArgs :
          change_phone(old_phone, new_phone)

SpecRecord == InitRecord /\ [][NextRecord]_vars

-----------------------------------------------------------------------------
(* Properties of the calls made on one record *)

StrictlyAscending(l) == \A i \in 1..(Len(l) - 1) : StrLt(l[i], l[i + 1])

\* s is exactly 9 decimal digits
NineDecimalDigits(s) == Len(s) = 9 /\ \A i \in 1..Len(s) : IsDecimalChar(s[i])

Failed == last.out.err = ValueError

\* C1: after construction and any sequence of add_phone, remove_phone and
\* change_phone calls the phone list is strictly ascending, so it holds no
\* number twice.
C1_PhonesStrictlyAscending == constructed => StrictlyAscending(phones)

\* C2: a remove_phone call that lists 9-digit numbers, one of which the
\* record does not hold, fails and leaves the phone list as it was before
\* the call.
C2_RemoveAbsentLeavesPhones ==
    (/\ last.op = "remove_phone"
     /\ \A i \in 1..Len(last.args) : NineDecimalDigits(last.args[i])
     /\ \E i \in 1..Len(last.args) : last.args[i] \notin Range(last.pre))
        => (Failed /\ phones = last.pre)

\* C3: an add_phone call whose batch holds a string that is not exactly 9
\* decimal digits fails and leaves the phone list as it was before the call.
C3_AddInvalidLeavesPhones ==
    (last.op = "add_phone" /\ \E i \in 1..Len(last.args) :
                                 ~NineDecimalDigits(last.args[i]))
        => (Failed /\ phones = last.pre)

\* C7: construction fails exactly when one of the phone strings is not
\* exactly 9 decimal digits; the birthday argument never decides it; a well
\* formed birthday is stored as that date and any other one as None, with the
\* name and the phones as given.
C7_ConstructionFailsIffInvalidPhone ==
    last.op = "__init__" =>
        /\ Failed <=> \E i \in 1..Len(last.args) : ~NineDecimalDigits(last.args[i])
        /\ ~Failed =>
              /\ constructed
              /\ name = Bilbo
              /\ Range(phones) = Range(last.args)
              /\ StrictlyAscending(phones)
              /\ birthday = (IF last.bday = Some(Date1988)
                             THEN Some(Date(1988, 12, 1)) ELSE None)

\* C9: a change_phone call that fails leaves the phone list as it was before
\* the call.
C9_FailedChangeLeavesPhones ==
    (last.op = "change_phone" /\ Failed) => phones = last.pre

(* What does hold of the failing calls. *)

\* add_phone validates the whole batch before it touches the list
AddPhoneFailureIsAtomic ==
    (last.op = "add_phone" /\ Failed) => phones = last.pre

W_AddPhoneFailureIsAtomic ==
    /\ last.op = "add_phone"
    /\ Failed
    /\ \E i \in 1..Len(last.args) : is_phone_valid(last.args[i])
                                    /\ last.args[i] \notin Range(last.pre)
    /\ Len(phones) > 0

\* construction is as C7 says when every character of the phone strings is
\* ASCII
ConstructionRightOnAscii ==
    (last.op = "__init__" /\ PhoneSup \notin Range(last.args)) =>
        C7_ConstructionFailsIffInvalidPhone

\* the list stays sorted, but not strictly
PhonesAscending ==
    \A i \in 1..(Len(phones) - 1) : ~StrLt(phones[i + 1], phones[i])

-----------------------------------------------------------------------------
(* AddressBook *)

\* position of key in the dict, 0 when it is not a key
KeyIndex(d, key) ==
    IF \E i \in 1..Len(d) : d[i].key = key
    THEN CHOOSE i \in 1..Len(d) : d[i].key = key
    ELSE 0

\* self.data[key] = record: a new key goes last, an old key keeps its place
SetItem(d, key, record) ==
    IF KeyIndex(d, key) = 0
    THEN Append(d, [key |-> key, rec |-> record])
    ELSE [d EXCEPT ![KeyIndex(d, key)] = [key |-> key, rec |-> record]]

\* add_record that keeps the entry a name already has
AddRecordKeepFirst(d, record) ==
    IF KeyIndex(d, record.name) = 0 THEN SetItem(d, record.name, record) ELSE d

\* AddressBook.add_record, the dict it leaves
AddRecord(d, record) == SetItem(d, record.name, record)

\* AddressBook.search_for, the dict it returns
SearchFor(d, query) ==
    LET Hit(entry) == Contains(get_search_string(entry.rec), query)
    IN SelectSeq(d, Hit)

MaxAdds == 3

Frodo == <<"F", "r", "o", "d", "o">>
ONeil == <<"O", "'", "N">>
Date2001 == <<"2", "0", "0", "1", "-", "0", "1", "-", "2", "3">>

\* the records passed to add_record
Records ==
    { Record(Bilbo, <<PhoneA, PhoneC, PhoneB>>, Some(Date1988)),
      Record(Bilbo, <<PhoneC>>, None),
      Record(Frodo, <<>>, None),
      Record(Frodo, <<PhoneA>>, Some(DateGarbled)),
      Record(ONeil, <<PhoneB>>, Some(Date2001)) }

\* the strings passed to search_for
Queries ==
    { <<>>,
      <<"i", "l", "b">>,
      <<"3", "1", "2">>,
      <<"8", "-", "1", "2">>,
      <<"N", "o", "n", "e">>,
      <<"N", "a", "m", "e">>,
      <<"O", "'", "N">>,
      <<"x", "y", "z">> }

\* book.add_record(record)
add_record(record) ==
    /\ Len(added) < MaxAdds
    /\ data' = AddRecord(data, record)
    /\ added' = Append(added, record)
    /\ UNCHANGED <<hits, recordVars, gen, daysVars>>

\* book.search_for(query)
search_for(query) ==
    /\ hits' = [called |-> TRUE, query |-> query, book |-> data,
                result |-> SearchFor(data, query)]
    /\ UNCHANGED <<data, added, recordVars, gen, daysVars>>

InitBook == InitRecord

NextBook ==
    \/ \E record \in Records : add_record(record)
    \/ \E query \in Queries : search_for(query)

SpecBook == InitBook /\ [][NextBook]_vars

\* the entries of the book matching the query on an entry's name, phones
\* and birthday text alone
Corpus(rec) ==
    rec.name \o <<" ">> \o Join(<<" ">>, rec.phones) \o <<" ">>
        \o BirthdayStr(rec.birthday)

CorpusMatches(d, query) ==
    LET Match(entry) == Contains(Corpus(entry.rec), query)
    IN SelectSeq(d, Match)

\* C5: search_for returns exactly the entries whose name, phones joined by
\* spaces and birthday text, separated by single spaces, contain the query.
C5_SearchReturnsCorpusMatches ==
    hits.called => hits.result = CorpusMatches(hits.book, hits.query)

\* the record passed by the latest add_record call made under the name n
LastAdded(n) ==
    added[CHOOSE k \in 1..Len(added) :
              /\ added[k].name = n
              /\ \A j \in (k + 1)..Len(added) : added[j].name # n]

\* C8: after any sequence of add_record calls on an empty book every key is
\* the name of the record stored under it, there is one entry for each name
\* added, and it holds the record added last under that name.
C8_KeysAndLastWrite ==
    /\ \A i \in 1..Len(data) : data[i].key = data[i].rec.name
    /\ \A i, j \in 1..Len(data) : i # j => data[i].key # data[j].key
    /\ {data[i].key : i \in 1..Len(data)} = {added[k].name : k \in 1..Len(added)}
    /\ \A i \in 1..Len(data) : data[i].rec = LastAdded(data[i].key)

\* a name was added twice with different records, next to another name
W_C8_Overwritten ==
    /\ Len(data) >= 2
    /\ \E j, k \in 1..Len(added) :
          j < k /\ added[j].name = added[k].name /\ added[j] # added[k]

-----------------------------------------------------------------------------
(* AddressBook.iterator and the for loop that reads its pages *)

MaxN == 7
MaxPagesKept == 16

Max(a, b) == IF a > b THEN a ELSE b

\* l[start:stop]
Slice(l, start, stop) ==
    LET Clamp(i) == IF i < 0 THEN Max(i + Len(l), 0) ELSE Min(i, Len(l))
    IN SubSeq(l, Clamp(start) + 1, Clamp(stop))

\* list(self.data.keys())
Keys(d) == [i \in 1..Len(d) |-> d[i].key]

\* rec_keys without rec_keys.sort()
UnsortedKeys(d) == Keys(d)

\* rec_keys after rec_keys.sort()
SortedKeys(d) == SortList(Keys(d))

\* self.data[key]
GetItem(d, key) == d[KeyIndex(d, key)].rec

\* the page built from recs_to_print: one line for each key, made of the key
\* and the record stored under it (the text of a line is not modelled)
Page(d, recs_to_print) ==
    [i \in 1..Len(recs_to_print) |->
        [key |-> recs_to_print[i], rec |-> GetItem(d, recs_to_print[i])]]

\* count left as it is
AdvanceNone(count, N) == count

\* count += N
Advance(count, N) == count + N

\* the generator at its while test with the given count: it yields the next
\* page, or returns. Of the pages yielded the first MaxPagesKept are recorded.
RunToYield(g, d, rec_keys, count) ==
    IF count < Len(rec_keys)
    THEN [g EXCEPT !.state = "yielded",
                   !.rec_keys = rec_keys,
                   !.count = count,
                   !.pages = IF Len(g.pages) < MaxPagesKept
                             THEN Append(g.pages,
                                         Page(d, Slice(rec_keys, count, count + g.N)))
                             ELSE g.pages]
    ELSE [g EXCEPT !.state = "done", !.rec_keys = rec_keys, !.count = count]

\* rec1 of the demo after its add_phone, remove_phone and change_phone calls
DemoRec1 ==
    [name |-> Bilbo,
     phones |->
        ChangePhone(
            RemoveLoop(
                AddPhones(InitPhones(<<PhoneA, PhoneC, PhoneB>>),
                          <<<<"3", "3", "4", "3", "4", "3", "4", "3", "4">>, <<"6", "6", "6", "6", "6", "6", "6", "6", "6">>, <<"6", "6", "6", "6", "6", "6", "6", "6", "6">>, <<"3", "3", "4", "3", "4", "3", "4", "3", "4">>, PhoneB>>),
                <<<<"3", "3", "4", "3", "4", "3", "4", "3", "4">>, PhoneC>>).phones,
            <<"6", "6", "6", "6", "6", "6", "6", "6", "6">>, <<"7", "7", "7", "7", "7", "7", "7", "7", "7">>).phones,
     birthday |-> BirthdayValue(Some(Date1988))]

\* the records the demo adds to myAddressBook, in the order it adds them
DemoRecords ==
    <<DemoRec1,
      Record(Frodo, <<>>, None),
       Record(<<"B", "a", "l", "i", "n">>, <<>>, Some(<<"1", "4", "3", "2", "-", "0", "4", "-", "1", "2">>)),
       Record(<<"T", "h", "o", "r", "i", "n">>, <<>>, Some(<<"1", "6", "7", "2", "-", "0", "8", "-", "1", "2">>)),
       Record(<<"D", "w", "a", "l", "i", "n">>, <<>>, Some(<<"1", "8", "6", "8", "-", "0", "9", "-", "2", "1">>)),
       Record(<<"O", "i", "n">>, <<>>, Some(<<"2", "0", "0", "1", "-", "0", "1", "-", "2", "3">>)),
       Record(<<"G", "l", "o", "i", "n">>, <<>>, Some(<<"2", "0", "0", "5", "-", "0", "6", "-", "0", "7">>)),
       Record(<<"K", "i", "l", "i">>, <<>>, Some(<<"1", "8", "4", "4", "-", "0", "8", "-", "2", "3">>)),
       Record(<<"F", "i", "l", "i">>, <<>>, Some(<<"1", "8", "4", "4", "-", "1", "2", "-", "3", "1">>)),
       Record(<<"B", "i", "f", "u", "r">>, <<>>, Some(<<"1", "8", "7", "2", "-", "1", "1", "-", "1", "3">>)),
       Record(<<"B", "o", "f", "u", "r">>, <<>>, Some(<<"1", "1", "1", "1", "-", "1", "1", "-", "1", "1">>)),
       Record(<<"B", "o", "m", "b", "u", "r">>, <<>>, Some(<<"2", "0", "0", "2", "-", "0", "2", "-", "2", "2">>)),
       Record(<<"D", "o", "r", "i">>, <<>>, Some(<<"1", "2", "3", "4", "-", "1", "2", "-", "2", "1">>)),
       Record(<<"O", "r", "i">>, <<>>, Some(<<"1", "2", "3", "2", "-", "0", "2", "-", "1", "6">>)),
       Record(<<"N", "o", "r", "i">>, <<>>, Some(<<"2", "0", "2", "3", "-", "0", "1", "-", "0", "1">>))>>

RECURSIVE AddAll(_, _)
\* the book after add_record of each of the records, in order
AddAll(d, records) ==
    IF Len(records) = 0 THEN d
    ELSE AddAll(AddRecord(d, Head(records)), Tail(records))

Balin == <<"B", "a", "l", "i", "n">>

\* the records of the small books
SmallRecords ==
    {Record(Frodo, <<>>, None), Record(Bilbo, <<PhoneC>>, None),
     Record(Balin, <<>>, None)}

\* the books paginated: those made of small records with distinct names, in
\* every order of insertion, and the demo's book after each of its add_record
\* calls
Books ==
    {AddAll(<<>>, s) :
        s \in {t \in UNION {[1..k -> SmallRecords] : k \in 0..Cardinality(SmallRecords)} :
                  \A i, j \in 1..Len(t) : i # j => t[i].name # t[j].name}}
    \cup {AddAll(<<>>, SubSeq(DemoRecords, 1, k)) : k \in 0..Len(DemoRecords)}

PageSizes == 0..MaxN

\* paginator = book.iterator(N): nothing of the body runs before the first next()
iterator(N) ==
    /\ gen.state = "none"
    /\ gen' = [NoGen EXCEPT !.state = "created", !.N = N]
    /\ UNCHANGED <<bookVars, recordVars, daysVars>>

\* next(paginator), called by the for statement: the body runs from its
\* start, or from the yield it stopped at, to the next yield or to its end
next_page ==
    /\ gen.state \in {"created", "suspended"}
    /\ \E rec_keys \in {IF gen.state = "created" THEN SortedKeys(data) ELSE gen.rec_keys},
          count \in {IF gen.state = "created" THEN 0 ELSE Advance(gen.count, gen.N)} :
          gen' = RunToYield(gen, data, rec_keys, count)
    /\ UNCHANGED <<bookVars, recordVars, daysVars>>

\* the body of the for statement: print(page); input(...)
loop_body ==
    /\ gen.state = "yielded"
    /\ gen' = [gen EXCEPT !.state = "suspended"]
    /\ UNCHANGED <<bookVars, recordVars, daysVars>>

InitPaginate ==
    /\ data \in Books
    /\ gen = NoGen
    /\ added = <<>>
    /\ hits = NoHits
    /\ constructed = FALSE
    /\ name = <<>>
    /\ phones = <<>>
    /\ birthday = None
    /\ last = NoCall
    /\ today = Epoch
    /\ dtb = NoDays

NextPaginate ==
    \/ \E N \in PageSizes : iterator(N)
    \/ next_page
    \/ loop_body

\* the for statement keeps calling next() and running its body
SpecPaginate ==
    InitPaginate /\ [][NextPaginate]_vars
        /\ WF_vars(next_page) /\ WF_vars(loop_body)
        /\ WF_vars(\E N \in PageSizes : iterator(N))

-----------------------------------------------------------------------------
(* Properties of the pages *)

RECURSIVE PageKeys(_)
\* the keys on the lines of the pages, in the order read
PageKeys(pages) ==
    IF Len(pages) = 0 THEN <<>>
    ELSE [i \in 1..Len(Head(pages)) |-> Head(pages)[i].key] \o PageKeys(Tail(pages))

PageSizesOf(pages) == [i \in 1..Len(pages) |-> Len(pages[i])]

\* C4: for a book of c records and N >= 1 the iteration yields ceil(c/N)
\* pages; the names on them, read in order, are the keys of the book in
\* ascending order, each once; every page but the last holds N records and the
\* last holds 1 to N; an empty book yields no page.
C4_PagesPartitionSortedKeys ==
    (gen.state = "done" /\ gen.N >= 1) =>
        LET c == Len(data)
            N == gen.N
            P == gen.pages
        IN /\ Len(P) = (c + N - 1) \div N
           /\ Len(PageKeys(P)) = c
           /\ Range(PageKeys(P)) = Range(Keys(data))
           /\ StrictlyAscending(PageKeys(P))
           /\ \A i \in 1..(Len(P) - 1) : Len(P[i]) = N
           /\ Len(P) > 0 => Len(P[Len(P)]) \in 1..N
           /\ c = 0 => P = <<>>

\* 13 records read 6 to a page: pages of 6, 6 and 1 records
W_C4_ThirteenBySix ==
    /\ gen.state = "done"
    /\ Len(data) = 13
    /\ gen.N = 6
    /\ PageSizesOf(gen.pages) = <<6, 6, 1>>
    /\ Keys(data) # SortedKeys(data)

\* C10: the iteration over the pages ends, whatever the book and the page
\* size N.
C10_IterationTerminates == (gen.state = "created") ~> (gen.state = "done")

\* C10 as amended: the iteration over the pages ends when N >= 1, and for any
\* N when the book is empty.
C10_TerminatesForPositiveN ==
    (gen.state = "created" /\ (gen.N >= 1 \/ Len(data) = 0)) ~> (gen.state = "done")

\* an iteration with N >= 1 that ended after three pages or more
W_C10_EndedAfterPages ==
    gen.state = "done" /\ gen.N >= 1 /\ Len(gen.pages) >= 3

-----------------------------------------------------------------------------
(* Record.days_to_birthday *)

\* what a call returns: an int, None, or the ValueError that date() raised
Days(n) == [kind |-> "int", days |-> n]
NoneReturned == [kind |-> "None", days |-> 0]
DateRaised == [kind |-> "ValueError", days |-> 0]

\* Record.days_to_birthday for the birthday value bday, today_date being t
DaysToBirthday(bday, t) ==
    IF bday # None
    THEN LET birthdate == Get(bday) IN
         IF ~ValidDate(t.y, birthdate.m, birthdate.d) THEN DateRaised
         ELSE LET birthday_this_year == Date(t.y, birthdate.m, birthdate.d)
                  delta_this_year == DaysBetween(birthday_this_year, t)
              IN IF delta_this_year >= 0 THEN Days(delta_this_year)
                 ELSE IF ~ValidDate(t.y + 1, birthdate.m, birthdate.d) THEN DateRaised
                 ELSE Days(DaysBetween(Date(t.y + 1, birthdate.m, birthdate.d), t))
    ELSE NoneReturned

BirthYear == 1988
FirstYear == 2023
LastYear == 2024

\* the days of the month tried as birthdays
BirthDays == {1, 15, 28, 29, 30, 31}

DatesOf(years, days) ==
    {Date(y, m, d) : y \in years, m \in 1..12, d \in days} \cap
    {dt \in [y : years, m : 1..12, d : days] : ValidDate(dt.y, dt.m, dt.d)}

\* record.days_to_birthday()
days_to_birthday ==
    /\ constructed
    /\ dtb' = DaysToBirthday(birthday, today)
    /\ UNCHANGED <<today, recordVars, bookVars, gen>>

InitDays ==
    /\ constructed = TRUE
    /\ name = Bilbo
    /\ phones = <<>>
    /\ birthday \in {None} \cup {Some(dt) : dt \in DatesOf({BirthYear}, BirthDays)}
    /\ last = NoCall
    /\ today \in DatesOf(FirstYear..LastYear, 1..31)
    /\ dtb = NoDays
    /\ data = <<>>
    /\ added = <<>>
    /\ hits = NoHits
    /\ gen = NoGen

NextDays == days_to_birthday

SpecDays == InitDays /\ [][NextDays]_vars

\* the days from t to the first date on or after t that has the month and
\* the day of b
DaysToNextOccurrence(b, t) ==
    LET ahead == {DaysBetween(Date(y, b.m, b.d), t) :
                     y \in {yy \in t.y..(t.y + 8) : ValidDate(yy, b.m, b.d)}}
        onOrAfter == {n \in ahead : n >= 0}
    IN CHOOSE n \in onOrAfter : \A k \in onOrAfter : n <= k

\* C6: for a record with a birthday days_to_birthday returns an integer
\* from 0 to 366, the number of days from today to the next occurrence of the
\* birthday's month and day on or after today; without a birthday it returns
\* None.
C6_DaysToNextBirthday ==
    dtb # NoDays =>
        IF birthday = None THEN dtb = NoneReturned
        ELSE /\ dtb.kind = "int"
             /\ dtb.days \in 0..366
             /\ dtb.days = DaysToNextOccurrence(Get(birthday), today)

(* What does hold: the claim for every birthday but 29 February. *)
DaysRightButForLeapDay ==
    (dtb # NoDays /\ birthday # None
        /\ ~(Get(birthday).m = 2 /\ Get(birthday).d = 29)) =>
        /\ dtb.kind = "int"
        /\ dtb.days \in 0..366
        /\ dtb.days = DaysToNextOccurrence(Get(birthday), today)

====
